---- MODULE Spec2Model ----
(***************************************************************************)
(* Model of src/app.py, a Streamlit script that browses a table of         *)
(* bibliographic records by category and concept, page by page, and keeps  *)
(* a read/unread flag per record (status_map) that can be exported and     *)
(* imported as JSON.                                                       *)
(*                                                                         *)
(* Streamlit runs the whole script once per user interaction: the widget   *)
(* that changed delivers its new value (an on_change callback runs first), *)
(* then the script runs top to bottom.  Each action of the model is one    *)
(* interaction together with the run of the script it starts.              *)
(*                                                                         *)
(* Strings the script compares or sorts (labels) are sequences of          *)
(* one-character strings; strings it only concatenates and looks up        *)
(* (record keys, session-state keys) are TLA+ strings built from them.     *)
(***************************************************************************)
EXTENDS Integers, Sequences, FiniteSets, TLC

(***************************************************************************)
(* Bounds.  PAGE_SIZE is 20 in the source (app.py line 45); the model      *)
(* takes a small page so that a bucket of four records spans two pages.    *)
(* All formulas are stated in terms of PAGE_SIZE.                          *)
(***************************************************************************)
PAGE_SIZE == 2

\* How many inputs the user gives in one session: a change of the file in
\* the table uploader, a change of the file in the progress uploader, a
\* change of a checkbox.  Pressing a button and changing the selection are
\* not counted.
MaxInputs == 3

\* The sheets preprocess_data is examined on have at most MaxRows rows.
MaxRows == 3

\* Body(v).  TLC evaluates a name defined by LET, and an argument of an
\* operator, anew at each of its uses; here v is evaluated once.
Once(Body(_), v) == CHOOSE y \in {Body(x) : x \in {v}} : TRUE

Min(a, b) == IF a < b THEN a ELSE b
Max(a, b) == IF a < b THEN b ELSE a

(***************************************************************************)
(* Characters and strings.                                                 *)
(***************************************************************************)
\* Code points of the characters the model's strings use (Python compares
\* str values by code point).
Ord ==
    ("-" :> 45) @@ ("." :> 46) @@ ("0" :> 48) @@ ("1" :> 49) @@ ("2" :> 50) @@ ("3" :> 51) @@
    ("4" :> 52) @@ ("5" :> 53) @@ ("6" :> 54) @@ ("7" :> 55) @@ ("8" :> 56) @@
    ("9" :> 57) @@ (":" :> 58) @@ ("_" :> 95) @@ ("a" :> 97) @@ ("b" :> 98) @@
    ("c" :> 99) @@ ("d" :> 100) @@ ("k" :> 107) @@ ("n" :> 110)

\* Python's a < b on two str values: lexicographic by code point.
RECURSIVE StrLess(_, _)
StrLess(a, b) ==
    IF b = <<>> THEN FALSE
    ELSE IF a = <<>> THEN TRUE
    ELSE IF Head(a) # Head(b) THEN Ord[Head(a)] < Ord[Head(b)]
    ELSE StrLess(Tail(a), Tail(b))

\* The text of a sequence of characters.
RECURSIVE Join(_)
Join(s) == IF s = <<>> THEN "" ELSE Head(s) \o Join(Tail(s))

\* Python's str(n) for a non-negative int: its decimal digits.
DigitChar == <<"0", "1", "2", "3", "4", "5", "6", "7", "8", "9">>
RECURSIVE IntToStr(_)
IntToStr(n) ==
    IF n < 10 THEN <<DigitChar[n + 1]>>
    ELSE IntToStr(n \div 10) \o <<DigitChar[(n % 10) + 1]>>

(***************************************************************************)
(* Cells and tables.  A label cell of the spreadsheet holds text, a number *)
(* or nothing (NaN).  A table is what read_excel returns: its column names *)
(* and its rows.  Of the twelve required columns only the ones the script  *)
(* computes with are carried in a row; the field "index" is the cell of an *)
(* extra column named "index", meaningful only when the table has one.     *)
(***************************************************************************)
Text(s) == [t |-> "str", s |-> s, n |-> 0]
Number(n) == [t |-> "int", s |-> <<>>, n |-> n]
NaN == [t |-> "nan", s |-> <<>>, n |-> 0]

\* The dtype read_excel gives a column: int64 when every cell is a whole
\* number, float64 when the others are empty, object when a cell is text.
ColumnDtype(rows, col) ==
    IF \A i \in DOMAIN rows : rows[i][col].t = "int" THEN "int64"
    ELSE IF \A i \in DOMAIN rows : rows[i][col].t \in {"int", "nan"} THEN "float64"
    ELSE "object"

\* pandas' astype(str) on one cell of a column of the given dtype: in a
\* float64 column the number 10 is the float 10.0.
AsTypeStr(c, dtype) ==
    CASE c.t = "str" -> c.s
      [] c.t = "int" -> IF dtype = "float64" THEN IntToStr(c.n) \o <<".", "0">>
                        ELSE IntToStr(c.n)
      [] OTHER -> <<"n", "a", "n">>

REQUIRED_COLS ==
    <<"id_registro", "id_extracao", "titulo_artigo", "area_publicacao",
      "periodico", "ano_publicacao", "autoria", "link_acesso",
      "doi", "categoria", "conceito", "descricao">>

Range(s) == {s[i] : i \in DOMAIN s}

\* A faulty validate_columns: it stops at the first column the table lacks.
validate_columns_first(df) ==
    IF \A i \in DOMAIN REQUIRED_COLS : REQUIRED_COLS[i] \in df.cols THEN <<>>
    ELSE <<REQUIRED_COLS[CHOOSE i \in DOMAIN REQUIRED_COLS :
                            /\ REQUIRED_COLS[i] \notin df.cols
                            /\ \A j \in 1..(i - 1) : REQUIRED_COLS[j] \in df.cols]>>

\* app.py validate_columns: the required columns the table lacks, in the
\* order of REQUIRED_COLS.
validate_columns(df) == SelectSeq(REQUIRED_COLS, LAMBDA c : c \notin df.cols)

NoFile == [present |-> FALSE, cols |-> {}, rows |-> <<>>]

Row(id, ano, cat, conc, ix) ==
    [id_registro |-> id, ano_publicacao |-> ano, categoria |-> cat,
     conceito |-> conc, index |-> ix]

Table(cols, rows) == [present |-> TRUE, cols |-> cols, rows |-> rows]

(***************************************************************************)
(* Grouping (app.py preprocess_data).                                      *)
(***************************************************************************)
\* Lines 84-86: reset_index(drop=False) adds the row position as a column
\* named "index", or "level_0" when the table already has a column "index";
\* rename then turns the column named "index" into "__idx__".  categoria
\* and conceito are converted to str.
WithIdx(df) ==
    [i \in 1..Len(df.rows) |->
        LET r == df.rows[i] IN
        [id_registro |-> r.id_registro,
         ano_publicacao |-> r.ano_publicacao,
         categoria |-> AsTypeStr(r.categoria, ColumnDtype(df.rows, "categoria")),
         conceito |-> AsTypeStr(r.conceito, ColumnDtype(df.rows, "conceito")),
         idx |-> IF "index" \in df.cols THEN r.index ELSE i - 1]]

\* A faulty order: the sort by id_registro and ano_publicacao alone.
RowLessById(a, b) ==
    IF a.id_registro # b.id_registro THEN a.id_registro < b.id_registro
    ELSE a.ano_publicacao < b.ano_publicacao

\* The order of sort_values(by=[categoria, conceito, id_registro,
\* ano_publicacao]): a strictly before b.
RowLess(a, b) ==
    IF a.categoria # b.categoria THEN StrLess(a.categoria, b.categoria)
    ELSE IF a.conceito # b.conceito THEN StrLess(a.conceito, b.conceito)
    ELSE IF a.id_registro # b.id_registro THEN a.id_registro < b.id_registro
    ELSE a.ano_publicacao < b.ano_publicacao

\* A faulty insertion: r placed in front of the rows it ties with.
RECURSIVE InsertSortedBeforeTies(_, _)
InsertSortedBeforeTies(s, r) ==
    IF s = <<>> THEN <<r>>
    ELSE IF ~RowLess(Head(s), r) THEN <<r>> \o s
    ELSE <<Head(s)>> \o InsertSortedBeforeTies(Tail(s), r)

\* r placed behind every row of the sorted s that is not after it.
RECURSIVE InsertSorted(_, _)
InsertSorted(s, r) ==
    IF s = <<>> THEN <<r>>
    ELSE IF RowLess(r, Head(s)) THEN <<r>> \o s
    ELSE <<Head(s)>> \o InsertSorted(Tail(s), r)

\* Line 87: sort_values on several columns is a stable sort.
RECURSIVE SortValues(_)
SortValues(rows) ==
    IF rows = <<>> THEN <<>>
    ELSE InsertSorted(SortValues(SubSeq(rows, 1, Len(rows) - 1)), rows[Len(rows)])

\* The distinct values of a sequence in first-seen order.
RECURSIVE FirstSeen(_)
FirstSeen(s) ==
    IF s = <<>> THEN <<>>
    ELSE LET f == FirstSeen(SubSeq(s, 1, Len(s) - 1)) IN
         IF s[Len(s)] \in Range(f) THEN f ELSE Append(f, s[Len(s)])

\* groupby(col, sort=False): the groups in first-seen order of their key,
\* each with its rows in their order.
GroupsOf(rows, col, keys) ==
    [g \in 1..Len(keys) |->
        [key |-> keys[g], rows |-> SelectSeq(rows, LAMBDA r : r[col] = keys[g])]]

GroupBy(rows, col) ==
    Once(LAMBDA keys : GroupsOf(rows, col, keys),
         FirstSeen([i \in 1..Len(rows) |-> rows[i][col]]))

\* Lines 82-93: data_dict, an ordered mapping category -> concept -> records.
ConcsOf(g) == [j \in 1..Len(g) |-> [conc |-> g[j].key, records |-> g[j].rows]]

CatsOf(cats) ==
    [c \in 1..Len(cats) |->
        [cat |-> cats[c].key,
         concs |-> Once(ConcsOf, GroupBy(cats[c].rows, "conceito"))]]

preprocess_data(df) == Once(CatsOf, GroupBy(SortValues(WithIdx(df)), "categoria"))

\* Lines 63-66: the key of a record.
make_record_key(row) ==
    Join(<<"k", ":", ":">> \o IntToStr(row.id_registro) \o <<"-">> \o row.conceito
         \o <<":", ":">> \o IntToStr(row.idx))

\* Lines 154, 199, 201: the session-state key of a bucket's cursor.
PageKey(cat, conc) == "page_" \o Join(cat) \o "_" \o Join(conc)

\* Line 198: the widget key of a bucket's load-more button.
ButtonKey(cat, conc) == "btn_more_" \o Join(cat) \o "_" \o Join(conc)

(***************************************************************************)
(* The links of a record's card (lines 157-170).                           *)
(***************************************************************************)
\* A field the record lacks: row.get(name, "") gives the empty string.
Missing == [t |-> "missing", s |-> <<>>, n |-> 0]

\* Python's str(x) on the value of a field.
PyStr(c) ==
    CASE c.t = "str" -> c.s
      [] c.t = "int" -> IntToStr(c.n)
      [] c.t = "nan" -> <<"n", "a", "n">>
      [] OTHER -> <<>>

Whitespace == {" ", "\t", "\n"}

\* str.lstrip() and str.strip().
RECURSIVE LStrip(_)
LStrip(s) ==
    IF s # <<>> /\ Head(s) \in Whitespace THEN LStrip(Tail(s)) ELSE s

RECURSIVE Strip(_)
Strip(s) ==
    IF s # <<>> /\ s[Len(s)] \in Whitespace THEN Strip(SubSeq(s, 1, Len(s) - 1))
    ELSE LStrip(s)

\* str.lower(), on the letters the model's strings use.
LowerOf == ("H" :> "h") @@ ("T" :> "t") @@ ("P" :> "p") @@ ("S" :> "s") @@ ("X" :> "x")
Lower(s) == [i \in DOMAIN s |-> IF s[i] \in DOMAIN LowerOf THEN LowerOf[s[i]] ELSE s[i]]

\* str.startswith(p).
StartsWith(s, p) == Len(s) >= Len(p) /\ SubSeq(s, 1, Len(p)) = p

\* A faulty test that knows "http://" only.
StartsWithHttpOnly(s) == StartsWith(s, <<"h", "t", "t", "p", ":", "/", "/">>)

\* Lines 169-170: startswith(("http://", "https://")).
StartsWithHttp(s) ==
    \/ StartsWith(s, <<"h", "t", "t", "p", ":", "/", "/">>)
    \/ StartsWith(s, <<"h", "t", "t", "p", "s", ":", "/", "/">>)

\* urllib.parse.quote_plus: a space becomes "+", a character that is not a
\* letter, a digit or one of "_.-~" becomes "%" and the two hexadecimal
\* digits of its code.
PercentOf ==
    ("&" :> <<"%", "2", "6">>) @@ ("+" :> <<"%", "2", "B">>) @@
    ("/" :> <<"%", "2", "F">>) @@ (":" :> <<"%", "3", "A">>) @@
    ("?" :> <<"%", "3", "F">>) @@ ("\t" :> <<"%", "0", "9">>) @@
    ("\n" :> <<"%", "0", "A">>)

RECURSIVE quote_plus(_)
quote_plus(s) ==
    IF s = <<>> THEN <<>>
    ELSE (IF Head(s) = " " THEN <<"+">>
          ELSE IF Head(s) \in DOMAIN PercentOf THEN PercentOf[Head(s)]
          ELSE <<Head(s)>>) \o quote_plus(Tail(s))

\* Lines 162-163.
link_google_scholar(titulo) ==
    "https://scholar.google.com/scholar?q=" \o Join(quote_plus(titulo))

\* Lines 169-170: the value itself if it is a web address, else the search
\* for the title.
link_or_scholar(raw, scholar) ==
    IF StartsWithHttp(Lower(raw)) THEN Join(raw) ELSE scholar

\* Lines 158-170: the links of the card of a row.
resolve_links(row) ==
    LET titulo == Strip(PyStr(row.titulo_artigo))
        link_raw == Strip(PyStr(row.link_acesso))
        doi_raw == Strip(PyStr(row.doi))
    IN  [present |-> TRUE,
         row |-> row,
         link_google_scholar |-> link_google_scholar(titulo),
         link_final |-> link_or_scholar(link_raw, link_google_scholar(titulo)),
         doi_final |-> link_or_scholar(doi_raw, link_google_scholar(titulo))]

NoCard ==
    [present |-> FALSE,
     row |-> [titulo_artigo |-> Missing, link_acesso |-> Missing, doi |-> Missing],
     link_google_scholar |-> "", link_final |-> "", doi_final |-> ""]

(***************************************************************************)
(* status_map, a Python dict from key to bool: the entries in insertion    *)
(* order.                                                                  *)
(***************************************************************************)
Keys(m) == {m[i].k : i \in DOMAIN m}
Has(m, k) == \E i \in DOMAIN m : m[i].k = k
Get(m, k) == m[CHOOSE i \in DOMAIN m : m[i].k = k].v

\* m[k] = v: an existing key keeps its place, a new one goes last.
Put(m, k, v) ==
    IF Has(m, k)
    THEN [i \in DOMAIN m |-> IF m[i].k = k THEN [k |-> k, v |-> v] ELSE m[i]]
    ELSE Append(m, [k |-> k, v |-> v])

\* m.update(items), items in their order.
RECURSIVE Update(_, _)
Update(m, items) ==
    IF items = <<>> THEN m
    ELSE Update(Put(m, Head(items).k, Head(items).v), Tail(items))

(***************************************************************************)
(* JSON.  A JSON text is the sequence of its tokens (white space and the   *)
(* indentation of json.dumps carry no meaning); a JSON value is a record   *)
(* of its kind and content.                                                *)
(***************************************************************************)
Punct(c) == [t |-> "punct", v |-> c, n |-> 0]
Lit(w) == [t |-> "lit", v |-> w, n |-> 0]
Num(n) == [t |-> "num", v |-> "", n |-> n]
Str(x) == [t |-> "str", v |-> x, n |-> 0]

JScalar(kind, n, x) == [kind |-> kind, n |-> n, s |-> x, items |-> <<>>, members |-> <<>>]
JArray(items) == [kind |-> "array", n |-> 0, s |-> "", items |-> items, members |-> <<>>]
JObject(members) == [kind |-> "object", n |-> 0, s |-> "", items |-> <<>>, members |-> members]
JNull == JScalar("null", 0, "")

\* The value of a scalar token.
ScalarVal(tok) ==
    CASE tok.t = "num" -> JScalar("number", tok.n, "")
      [] tok.t = "str" -> JScalar("string", 0, tok.v)
      [] OTHER -> JScalar(tok.v, 0, "")

ParseFail == [ok |-> FALSE, val |-> JNull, rest |-> <<>>]
Parsed(val, rest) == [ok |-> TRUE, val |-> val, rest |-> rest]

\* A Python dict built from members in their order: a repeated key keeps
\* its first place and takes its last value.
RECURSIVE DictOf(_, _)
DictOf(acc, members) ==
    IF members = <<>> THEN acc
    ELSE DictOf(Put(acc, Head(members).k, Head(members).v), Tail(members))

\* The JSON decoder: one value at the head of toks, and the tokens after it.
RECURSIVE ParseValue(_)
RECURSIVE ParseElems(_, _)
RECURSIVE ParseMembers(_, _)
ParseValue(toks) ==
    IF toks = <<>> THEN ParseFail
    ELSE LET h == Head(toks) IN
         IF h.t # "punct" THEN Parsed(ScalarVal(h), Tail(toks))
         ELSE IF h.v = "[" THEN
             IF Len(toks) >= 2 /\ toks[2] = Punct("]")
             THEN Parsed(JArray(<<>>), SubSeq(toks, 3, Len(toks)))
             ELSE ParseElems(Tail(toks), <<>>)
         ELSE IF h.v = "{" THEN
             IF Len(toks) >= 2 /\ toks[2] = Punct("}")
             THEN Parsed(JObject(<<>>), SubSeq(toks, 3, Len(toks)))
             ELSE ParseMembers(Tail(toks), <<>>)
         ELSE ParseFail

\* The elements of an array after "[" or ",", acc the ones before.
ParseElems(toks, acc) ==
    LET e == ParseValue(toks) IN
    IF ~e.ok \/ e.rest = <<>> THEN ParseFail
    ELSE IF Head(e.rest) = Punct(",") THEN ParseElems(Tail(e.rest), Append(acc, e.val))
    ELSE IF Head(e.rest) = Punct("]") THEN Parsed(JArray(Append(acc, e.val)), Tail(e.rest))
    ELSE ParseFail

\* The members of an object after "{" or ",", acc the ones before.
ParseMembers(toks, acc) ==
    IF Len(toks) < 3 \/ toks[1].t # "str" \/ toks[2] # Punct(":") THEN ParseFail
    ELSE LET e == ParseValue(SubSeq(toks, 3, Len(toks)))
             m == Append(acc, [k |-> toks[1].v, v |-> e.val])
         IN  IF ~e.ok \/ e.rest = <<>> THEN ParseFail
             ELSE IF Head(e.rest) = Punct(",") THEN ParseMembers(Tail(e.rest), m)
             ELSE IF Head(e.rest) = Punct("}")
                  THEN Parsed(JObject(DictOf(<<>>, m)), Tail(e.rest))
             ELSE ParseFail

\* json.loads: the value of the whole text; ok is FALSE where it raises.
json_loads(text) ==
    LET r == ParseValue(text) IN
    IF r.ok /\ r.rest = <<>> THEN r ELSE ParseFail

\* Python's bool(v) on a decoded JSON value.
Bool(v) ==
    CASE v.kind = "true" -> TRUE
      [] v.kind = "number" -> v.n # 0
      [] v.kind = "string" -> v.s # ""
      [] v.kind = "array" -> v.items # <<>>
      [] v.kind = "object" -> v.members # <<>>
      [] OTHER -> FALSE

\* json.dumps of a dict from str to bool, entries in the dict's order.
RECURSIVE DumpEntries(_)
DumpEntries(m) ==
    IF m = <<>> THEN <<>>
    ELSE <<Str(Head(m).k), Punct(":"), Lit(IF Head(m).v THEN "true" ELSE "false")>>
         \o (IF Len(m) > 1 THEN <<Punct(",")>> ELSE <<>>)
         \o DumpEntries(Tail(m))

\* A faulty export_progress: it writes only the records marked as read.
export_progress_read_only(status) ==
    <<Punct("{")>> \o DumpEntries(SelectSeq(status, LAMBDA e : e.v)) \o <<Punct("}")>>

\* Lines 68-69.
export_progress(status) == <<Punct("{")>> \o DumpEntries(status) \o <<Punct("}")>>

\* The {k: bool(v)} of line 75 for the members of a decoded object.
Coerced(members) ==
    [i \in DOMAIN members |-> [k |-> members[i].k, v |-> Bool(members[i].v)]]

\* A faulty import: the payload replaces status_map instead of updating it.
import_loaded_replacing(status, data) ==
    IF ~data.ok THEN [status_map |-> status, msg |-> "import_failed"]
    ELSE IF data.val.kind = "object"
    THEN [status_map |-> Coerced(data.val.members), msg |-> "import_success"]
    ELSE [status_map |-> status, msg |-> "import_not_object"]

\* A faulty import: status_map is emptied before the payload is looked at,
\* so a payload that is refused leaves it empty.
import_loaded_clearing(status, data) ==
    IF ~data.ok THEN [status_map |-> <<>>, msg |-> "import_failed"]
    ELSE IF data.val.kind = "object"
    THEN [status_map |-> Update(status, Coerced(data.val.members)),
          msg |-> "import_success"]
    ELSE [status_map |-> <<>>, msg |-> "import_not_object"]

\* Lines 73-80, data the result of json.loads.
import_loaded(status, data) ==
    IF ~data.ok THEN [status_map |-> status, msg |-> "import_failed"]
    ELSE IF data.val.kind = "object"
    THEN [status_map |-> Update(status, Coerced(data.val.members)),
          msg |-> "import_success"]
    ELSE [status_map |-> status, msg |-> "import_not_object"]

\* Lines 71-80: the status_map after the call and the message it shows.
import_progress(status, json_text) ==
    Once(LAMBDA data : import_loaded(status, data), json_loads(json_text))

(***************************************************************************)
(* The records view (app.py lines 145-201).                                *)
(***************************************************************************)
\* st.session_state.get(key, 0) and st.session_state[key] = v on the
\* cursor entries of the session state.
PageGet(page, key) == IF key \in DOMAIN page THEN page[key] ELSE 0
PageSet(page, key, v) ==
    [k \in (DOMAIN page) \cup {key} |-> IF k = key THEN v ELSE page[k]]

\* Python's records[start:end] for 0 <= start <= end.
Slice(records, start, end) ==
    IF start >= Len(records) THEN <<>>
    ELSE SubSeq(records, start + 1, Min(end, Len(records)))

\* Line 191: the widget key of a record's checkbox.
CheckboxKey(key) == "tgl::" \o key

\* A faulty RenderRow: a record that is displayed is marked as read.
RenderRowMarksRead(acc, row, key) ==
    [status_map |-> Put(acc.status_map, key, TRUE),
     rows |-> Append(acc.rows, row),
     keys |-> Append(acc.keys, key),
     lido |-> Append(acc.lido, TRUE),
     widgets |-> acc.widgets \cup {CheckboxKey(key)},
     crashed |-> CheckboxKey(key) \in acc.widgets]

\* A faulty RenderRow: every record that is displayed is registered as
\* unread, also one whose key status_map has.
RenderRowResets(acc, row, key) ==
    [status_map |-> Put(acc.status_map, key, FALSE),
     rows |-> Append(acc.rows, row),
     keys |-> Append(acc.keys, key),
     lido |-> Append(acc.lido, FALSE),
     widgets |-> acc.widgets \cup {CheckboxKey(key)},
     crashed |-> CheckboxKey(key) \in acc.widgets]

\* Lines 157-194 for one row: its key is registered as unread when
\* status_map lacks it (lines 172-174), its flag is read for the badge
\* (line 175) and its checkbox is created (line 188).  Streamlit raises an
\* exception at a widget whose key another widget of the same run has: the
\* run ends there.
RenderRow(acc, row, key) ==
    LET status == IF Has(acc.status_map, key) THEN acc.status_map
                  ELSE Put(acc.status_map, key, FALSE)
    IN  [status_map |-> status,
         rows |-> Append(acc.rows, row),
         keys |-> Append(acc.keys, key),
         lido |-> Append(acc.lido, Get(status, key)),
         widgets |-> acc.widgets \cup {CheckboxKey(key)},
         crashed |-> CheckboxKey(key) \in acc.widgets]

\* Lines 156-194: the rows of one window, in order.
RECURSIVE RenderRows(_, _)
RenderRows(acc, rows) ==
    IF rows = <<>> \/ acc.crashed THEN acc
    ELSE Once(LAMBDA next : RenderRows(next, Tail(rows)),
              Once(LAMBDA key : RenderRow(acc, Head(rows), key),
                   make_record_key(Head(rows))))

\* Lines 154-155 and 196-201, shown the result of the rows' loop.  clicked
\* is the widget key of the button the user pressed to start this run (""
\* when none was).  The window is recorded as the page shows it.
RenderWindow(st, cat, conc, records, clicked, shown) ==
    LET key == PageKey(cat, conc)
        start == PageGet(st.page, key)
        end == start + PAGE_SIZE
        offered == ~shown.crashed /\ end < Len(records)
        button == ButtonKey(cat, conc)
        crashed == shown.crashed \/ (offered /\ button \in shown.widgets)
    IN  [status_map |-> shown.status_map,
         page |-> IF shown.crashed THEN st.page
                  ELSE IF end < Len(records)
                  THEN IF ~crashed /\ clicked = button
                       THEN PageSet(st.page, key, end)
                       ELSE st.page
                  ELSE PageSet(st.page, key, 0),
         windows |-> Append(st.windows,
                            [cat |-> cat, conc |-> conc, start |-> start,
                             rows |-> shown.rows, keys |-> shown.keys,
                             lido |-> shown.lido,
                             total |-> Len(records), more |-> offered /\ ~crashed]),
         widgets |-> IF offered THEN shown.widgets \cup {button} ELSE shown.widgets,
         crashed |-> crashed]

\* Lines 153-201 for one bucket.
RenderBucket(st, cat, conc, records, clicked) ==
    Once(LAMBDA shown : RenderWindow(st, cat, conc, records, clicked, shown),
         RenderRows([status_map |-> st.status_map, rows |-> <<>>, keys |-> <<>>,
                     lido |-> <<>>,
                     widgets |-> st.widgets, crashed |-> FALSE],
                    Slice(records, PageGet(st.page, PageKey(cat, conc)),
                          PageGet(st.page, PageKey(cat, conc)) + PAGE_SIZE)))

\* Line 152: the buckets of one category in the order of the dict.
RECURSIVE RenderConcs(_, _, _, _)
RenderConcs(st, cat, concs, clicked) ==
    IF concs = <<>> \/ st.crashed THEN st
    ELSE Once(LAMBDA next : RenderConcs(next, cat, Tail(concs), clicked),
              RenderBucket(st, cat, Head(concs).conc, Head(concs).records, clicked))

\* Lines 148-152: the selected categories in the order of the selection;
\* one that data_dict lacks is skipped.
RECURSIVE RenderCats(_, _, _, _)
RenderCats(st, cats, dd, clicked) ==
    IF cats = <<>> \/ st.crashed THEN st
    ELSE IF \A i \in DOMAIN dd : dd[i].cat # Head(cats)
    THEN RenderCats(st, Tail(cats), dd, clicked)
    ELSE Once(LAMBDA next : RenderCats(next, Tail(cats), dd, clicked),
              RenderConcs(st, Head(cats),
                          dd[CHOOSE i \in DOMAIN dd : dd[i].cat = Head(cats)].concs,
                          clicked))

\* What the records view leaves: r is the state of the loop at its end.
render_result(r) ==
    [status_map |-> r.status_map, page |-> r.page, windows |-> r.windows,
     msg |-> IF r.crashed THEN "duplicate_widget_key" ELSE ""]

\* Lines 145-201.
render_block(status, page, dd, selected, clicked) ==
    IF selected = <<>>
    THEN [status_map |-> status, page |-> page, windows |-> <<>>, msg |-> "select_category"]
    ELSE Once(render_result,
              RenderCats([status_map |-> status, page |-> page, windows |-> <<>>,
                          widgets |-> {}, crashed |-> FALSE],
                         selected, dd, clicked))

(***************************************************************************)
(* The tables the user may upload.                                         *)
(***************************************************************************)
LabelA == Text(<<"a">>)
LabelAB == Text(<<"a", "_", "b">>)
LabelBC == Text(<<"b", "_", "c">>)
LabelC == Text(<<"c">>)

\* Two buckets, ("a", "b_c") with four records and ("a_b", "c") with one.
TableA ==
    Table(Range(REQUIRED_COLS),
          <<Row(2, 2000, LabelA, LabelBC, 0),
            Row(1, 2001, LabelA, LabelBC, 0),
            Row(1, 2000, LabelA, LabelBC, 0),
            Row(1, 2001, LabelA, LabelBC, 0),
            Row(1, 2000, LabelAB, LabelC, 0)>>)

\* Another data set, from a sheet that has a thirteenth column named
\* "index": buckets ("a", "b_c") and ("c", "b_c") with one record each.
TableB ==
    Table(Range(REQUIRED_COLS) \cup {"index"},
          <<Row(1, 2001, LabelA, LabelBC, 7),
            Row(1, 2002, LabelC, LabelBC, 7)>>)

\* A sheet without the columns doi and descricao.
TableBad ==
    Table(Range(REQUIRED_COLS) \ {"doi", "descricao"},
          <<Row(1, 2001, LabelA, LabelBC, 0)>>)

Tables == {TableA, TableB, TableBad}

\* The rows of the sheets preprocess_data is examined on: labels that are
\* text, numbers or empty, and records that tie on id_registro and
\* ano_publicacao when a sheet has a row twice.
SheetRows ==
    {Row(2, 2000, LabelA, LabelBC, 0),
     Row(1, 2001, LabelA, LabelBC, 0),
     Row(1, 2000, LabelA, LabelBC, 0),
     Row(1, 2000, LabelA, Number(2), 0),
     Row(1, 2000, Number(10), LabelBC, 0),
     Row(1, 2000, Number(2), Number(10), 0),
     Row(1, 2000, NaN, Number(2), 0),
     Row(1, 2000, LabelC, NaN, 0)}

\* Every sheet of at most MaxRows of these rows, with the required columns.
Sheets ==
    {Table(Range(REQUIRED_COLS), rows) :
        rows \in UNION {[1..n -> SheetRows] : n \in 0..MaxRows}}

(***************************************************************************)
(* The upload container (app.py lines 103-124).                            *)
(***************************************************************************)
Message(m, cols) == [m |-> m, cols |-> cols]

\* A faulty upload container: processing a table starts a new status_map.
upload_block_clearing(ss, uploaded, process) ==
    LET missing == IF uploaded.present THEN validate_columns(uploaded) ELSE <<>>
        valid == uploaded.present /\ missing = <<>>
        ingest == process /\ uploaded.present /\ valid
    IN  [valid |-> valid,
         ss |-> IF ingest
                THEN [ss EXCEPT !.df = uploaded, !.data_dict = preprocess_data(uploaded),
                                !.status_map = <<>>]
                ELSE ss,
         msgs |-> IF ~uploaded.present THEN <<>>
                  ELSE IF missing # <<>> THEN <<Message("missing_columns", missing)>>
                  ELSE <<Message("valid_file", <<>>)>>]

\* ss is the session state [df, data_dict, status_map, page]; uploaded the
\* file in the uploader; process whether the process button was pressed.
\* msgs are the messages that stay on the page (st.error, st.success); the
\* toast of line 124 is not kept.
upload_block(ss, uploaded, process) ==
    LET missing == IF uploaded.present THEN validate_columns(uploaded) ELSE <<>>
        valid == uploaded.present /\ missing = <<>>
        ingest == process /\ uploaded.present /\ valid
    IN  [valid |-> valid,
         ss |-> IF ingest
                THEN [ss EXCEPT !.df = uploaded, !.data_dict = preprocess_data(uploaded)]
                ELSE ss,
         msgs |-> IF ~uploaded.present THEN <<>>
                  ELSE IF missing # <<>> THEN <<Message("missing_columns", missing)>>
                  ELSE <<Message("valid_file", <<>>)>>]

(***************************************************************************)
(* The sidebar (app.py lines 127-143).                                     *)
(***************************************************************************)
\* Line 132: sorted(data_dict.keys()).
RECURSIVE InsertStr(_, _)
InsertStr(s, x) ==
    IF s = <<>> THEN <<x>>
    ELSE IF StrLess(x, Head(s)) THEN <<x>> \o s
    ELSE <<Head(s)>> \o InsertStr(Tail(s), x)

RECURSIVE SortedStrs(_)
SortedStrs(s) ==
    IF s = <<>> THEN <<>>
    ELSE InsertStr(SortedStrs(SubSeq(s, 1, Len(s) - 1)), s[Len(s)])

all_cats(dd) == SortedStrs([i \in DOMAIN dd |-> dd[i].cat])

NoBlob == [present |-> FALSE, text |-> <<>>]
Blob(text) == [present |-> TRUE, text |-> text]

\* Lines 140-143: the data of the download button is taken from status_map
\* before the file in the progress uploader, if any, is imported.
sidebar_block(status, prog) ==
    LET r == IF prog.present THEN import_progress(status, prog.text)
             ELSE [status_map |-> status, msg |-> ""]
    IN  [download_data |-> export_progress(status),
         status_map |-> r.status_map,
         msgs |-> IF prog.present THEN <<Message(r.msg, <<>>)>> ELSE <<>>]

(***************************************************************************)
(* The progress files the user may upload.                                 *)
(***************************************************************************)
\* {"k::1-b_c::1": 1, "x": null}
BlobObject ==
    Blob(<<Punct("{"), Str("k::1-b_c::1"), Punct(":"), Num(1), Punct(","),
           Str("x"), Punct(":"), Lit("null"), Punct("}")>>)

\* [1, 2, 3]
BlobArray ==
    Blob(<<Punct("["), Num(1), Punct(","), Num(2), Punct(","), Num(3), Punct("]")>>)

\* true
BlobScalar == Blob(<<Lit("true")>>)

\* {"x": true     (cut short)
BlobBroken == Blob(<<Punct("{"), Str("x"), Punct(":"), Lit("true")>>)

\* The files the user puts into the progress uploader; the other two are
\* further texts import_progress is applied to.
Blobs == {BlobObject, BlobArray}

(***************************************************************************)
(* The script from line 103 to its end, as one run.  ss is the session     *)
(* state [df, data_dict, status_map, page] when the run starts; up and     *)
(* prog are the files in the two uploaders, process and clicked the button *)
(* pressed, ms the multiselect [options, value] as the run before left it  *)
(* (with the user's change, if that started the run).  The result is the   *)
(* session state, the multiselect and the screen [valid, download_data,    *)
(* msgs, windows] when the run ends.                                       *)
(***************************************************************************)
\* Lines 145-201 and the end of the run, after the upload container (u)
\* and the sidebar (b); sel is the selection.
script_records(u, b, opts, sel, r) ==
    [session_state |-> [u.ss EXCEPT !.status_map = r.status_map, !.page = r.page],
     multiselect |-> [options |-> opts, value |-> sel],
     screen |-> [valid |-> u.valid,
                 download_data |-> b.download_data,
                 msgs |-> u.msgs \o b.msgs
                          \o (IF r.msg = "" THEN <<>> ELSE <<Message(r.msg, <<>>)>>),
                 windows |-> r.windows]]

\* Lines 127-143.  A multiselect whose options differ from those of the
\* run before is a new widget and starts from its default, the empty
\* selection.
script_sidebar(u, b, opts, sel, clicked) ==
    Once(LAMBDA r : script_records(u, b, opts, sel, r),
         render_block(b.status_map, u.ss.page, u.ss.data_dict, sel, clicked))

script_stored(u, prog, ms, opts, clicked) ==
    Once(LAMBDA b : script_sidebar(u, b, opts,
                                   IF opts = ms.options THEN ms.value ELSE <<>>, clicked),
         sidebar_block(u.ss.status_map, prog))

\* Line 127: without a stored table nothing else is drawn.
script_after_upload(u, prog, ms, clicked) ==
    IF ~u.ss.df.present
    THEN [session_state |-> u.ss,
          multiselect |-> [options |-> <<>>, value |-> <<>>],
          screen |-> [valid |-> u.valid, download_data |-> <<>>, msgs |-> u.msgs,
                      windows |-> <<>>]]
    ELSE Once(LAMBDA opts : script_stored(u, prog, ms, opts, clicked),
              all_cats(u.ss.data_dict))

script(ss, up, process, prog, ms, clicked) ==
    Once(LAMBDA u : script_after_upload(u, prog, ms, clicked),
         upload_block(ss, up, process))

(***************************************************************************)
(* State.                                                                  *)
(***************************************************************************)
VARIABLES
    uploaded,        \* the file in the table uploader (line 108), or NoFile
    prog_file,       \* the file in the progress uploader (line 141), or NoBlob
    multiselect,     \* the category multiselect (line 133): options, value
    session_state,   \* st.session_state: df, data_dict, status_map and the
                     \* "page_..." entries (page)
    screen,          \* what the last run has drawn: valid (the process button
                     \* is enabled, lines 109-120), download_data (the data of
                     \* the download button, line 140), msgs (the messages),
                     \* windows (the buckets rendered)
    used,            \* how many inputs the user has given
    card             \* the links of a record's card (lines 161-170), taken
                     \* on their own

vars == <<uploaded, prog_file, multiselect, session_state, screen, used, card>>

df == session_state.df
data_dict == session_state.data_dict
status_map == session_state.status_map
page == session_state.page
selected_cats == multiselect.value
windows == screen.windows
msgs == screen.msgs

\* The keys of the checkboxes and the load-more buttons the page shows.
Shown ==
    UNION {Range(windows[w].keys) : w \in DOMAIN windows}
More ==
    {ButtonKey(windows[w].cat, windows[w].conc) :
        w \in {v \in DOMAIN windows : windows[v].more}}

\* The session state after ensure_session_state (lines 55-61) and a first
\* run of the script with nothing uploaded.
Init ==
    /\ uploaded = NoFile
    /\ prog_file = NoBlob
    /\ multiselect = [options |-> <<>>, value |-> <<>>]
    /\ session_state = [df |-> NoFile, data_dict |-> <<>>, status_map |-> <<>>,
                        page |-> <<>>]
    /\ screen = [valid |-> FALSE, download_data |-> <<>>, msgs |-> <<>>,
                 windows |-> <<>>]
    /\ used = 0
    /\ card = NoCard

(***************************************************************************)
(* The user's interactions, each with the run of the script it starts.     *)
(***************************************************************************)
\* The run over the widget values of this interaction: up and prog the
\* files in the uploaders, sel the selection, status the status_map as the
\* interaction's callback, if any, has left it.
Run(status, up, process, prog, sel, clicked) ==
    /\ uploaded' = up
    /\ prog_file' = prog
    /\ card' = card
    /\ \E r \in {script([session_state EXCEPT !.status_map = status], up, process, prog,
                       [multiselect EXCEPT !.value = sel], clicked)} :
           /\ session_state' = r.session_state
           /\ multiselect' = r.multiselect
           /\ screen' = r.screen

\* Line 108: the user puts another file into the table uploader.
ChooseFile(t) ==
    /\ t # uploaded
    /\ used < MaxInputs
    /\ used' = used + 1
    /\ Run(status_map, t, FALSE, prog_file, selected_cats, "")

UploadTable == \E t \in Tables : ChooseFile(t)

\* Line 120: the user presses the process button, which is enabled.
ClickProcess ==
    /\ screen.valid
    /\ UNCHANGED used
    /\ Run(status_map, uploaded, TRUE, prog_file, selected_cats, "")

\* Line 133: the user adds a category to the selection or removes one.
SelectCats(sel) ==
    /\ df.present
    /\ sel # selected_cats
    /\ UNCHANGED used
    /\ Run(status_map, uploaded, FALSE, prog_file, sel, "")

\* Line 141: the user puts a file into the progress uploader, or removes
\* the one that is there.
ChooseProgress(b) ==
    /\ df.present
    /\ b # prog_file
    /\ used < MaxInputs
    /\ used' = used + 1
    /\ Run(status_map, uploaded, FALSE, b, selected_cats, "")

SelectCategory ==
    \E c \in Range(multiselect.options) \ Range(selected_cats) :
        SelectCats(Append(selected_cats, c))

DeselectCategory ==
    \E c \in Range(selected_cats) :
        SelectCats(SelectSeq(selected_cats, LAMBDA x : x # c))

UploadProgress == \E b \in Blobs \cup {NoBlob} : ChooseProgress(b)

\* A faulty callback: ticking a record unticks every other one.
toggle_lido_callback_exclusive(status, key, v) ==
    [i \in DOMAIN Put(status, key, v) |->
        [k |-> Put(status, key, v)[i].k,
         v |-> Put(status, key, v)[i].k = key /\ v]]

\* Lines 96-97: toggle_lido_callback, v the value of the checkbox.
toggle_lido_callback(status, key, v) == Put(status, key, v)

\* Lines 188-194: the user changes the checkbox of a shown record; the
\* callback runs before the script does.  v is the value the widget takes:
\* the widget keeps its own value between runs, which an import may have
\* left behind status_map[key].
Toggle(key, v) ==
    /\ key \in Shown
    /\ used < MaxInputs
    /\ used' = used + 1
    /\ Run(toggle_lido_callback(status_map, key, v), uploaded, FALSE, prog_file,
           selected_cats, "")

ToggleRecord == \E key \in Shown, v \in BOOLEAN : Toggle(key, v)

\* Line 198: the user presses a load-more button the page offers.
ClickMore(button) ==
    /\ button \in More
    /\ UNCHANGED used
    /\ Run(status_map, uploaded, FALSE, prog_file, selected_cats, button)

LoadMore == \E button \in More : ClickMore(button)

\* Line 140: the user presses the download button.
Export ==
    /\ df.present
    /\ UNCHANGED used
    /\ Run(status_map, uploaded, FALSE, prog_file, selected_cats, "")

Next ==
    \/ UploadTable
    \/ ClickProcess
    \/ SelectCategory
    \/ DeselectCategory
    \/ UploadProgress
    \/ ToggleRecord
    \/ LoadMore
    \/ Export

Spec == Init /\ [][Next]_vars

(***************************************************************************)
(* preprocess_data on its own: the user uploads one sheet and has it       *)
(* processed.                                                              *)
(***************************************************************************)
UploadSheet ==
    /\ ~uploaded.present
    /\ \E t \in Sheets : ChooseFile(t)

NextGroup ==
    \/ UploadSheet
    \/ ClickProcess

SpecGroup == Init /\ [][NextGroup]_vars

(***************************************************************************)
(* The links of a card on their own: the fields of a row are drawn from    *)
(* the values below, and lines 157-170 are applied to them.                *)
(***************************************************************************)
Leads == {<<>>, <<" ">>}
Schemes ==
    {<<>>,
     <<"h", "t", "t", "p", ":", "/">>,
     <<"h", "t", "t", "p", ":", "/", "/">>,
     <<"H", "T", "T", "P", "S", ":", "/", "/">>}
Rests == {<<"x">>, <<"X", "\t">>}

\* The values of link_acesso and of doi.
LinkCells ==
    {Text(l \o h \o r) : l \in Leads, h \in Schemes, r \in Rests}
        \cup {NaN, Missing, Number(10)}

\* The values of titulo_artigo.
TitleCells ==
    {Text(<<"a", " ", "b">>), Text(<<" ", "a", "&", "b", " ">>), Text(<<" ">>),
     Text(<<"h", "t", "t", "p", ":", "/", "/", "x">>), NaN, Missing}

RenderCard ==
    /\ ~card.present
    /\ \E t \in TitleCells, l \in LinkCells, d \in LinkCells :
           card' = resolve_links([titulo_artigo |-> t, link_acesso |-> l, doi |-> d])
    /\ UNCHANGED <<uploaded, prog_file, multiselect, session_state, screen, used>>

NextLinks == RenderCard

SpecLinks == Init /\ [][NextLinks]_vars

(***************************************************************************)
(* Properties.                                                             *)
(***************************************************************************)
\* The buckets of a data_dict, as pairs of category and concept.
Buckets(dd) ==
    UNION {{<<dd[c].cat, dd[c].concs[j].conc>> : j \in DOMAIN dd[c].concs} :
              c \in DOMAIN dd}

\* The records of a bucket of a data_dict.
Records(dd, cat, conc) ==
    LET c == CHOOSE i \in DOMAIN dd : dd[i].cat = cat
        j == CHOOSE i \in DOMAIN dd[c].concs : dd[c].concs[i].conc = conc
    IN  dd[c].concs[j].records

\* Every key of m is a key of n, with the value it has in m.
Keeps(m, n) == \A k \in Keys(m) : Has(n, k) /\ Get(n, k) = Get(m, k)

\* No key is twice in m.
IsDict(m) == \A i, j \in DOMAIN m : m[i].k = m[j].k => i = j

OnScreen(m) == \E i \in DOMAIN msgs : msgs[i].m = m

\* JSON objects and the mapping each stands for after bool(v):
\*   {"k::1-b_c::1": 1, "x": null}
\*   {}
\*   {"x": 0, "x": [0], "y": "", "k::2-b_c::0": true, "z": {}}
ObjectPayloads ==
    {[text |-> BlobObject.text,
      map |-> ("k::1-b_c::1" :> TRUE) @@ ("x" :> FALSE)],
     [text |-> <<Punct("{"), Punct("}")>>,
      map |-> [k \in {} |-> TRUE]],
     [text |-> <<Punct("{"), Str("x"), Punct(":"), Num(0), Punct(","),
                 Str("x"), Punct(":"), Punct("["), Num(0), Punct("]"), Punct(","),
                 Str("y"), Punct(":"), Str(""), Punct(","),
                 Str("k::2-b_c::0"), Punct(":"), Lit("true"), Punct(","),
                 Str("z"), Punct(":"), Punct("{"), Punct("}"), Punct("}")>>,
      map |-> ("x" :> TRUE) @@ ("y" :> FALSE) @@ ("k::2-b_c::0" :> TRUE)
              @@ ("z" :> FALSE)]}

\* C1: a successful import of a payload P into status_map yields exactly
\* the store that maps every key k of P to bool(P[k]), keeps the value of
\* every key that status_map has and P lacks, and has no other key.
C1_ImportMerges ==
    \A p \in ObjectPayloads :
        \E r \in {import_progress(status_map, p.text)} :
            /\ r.msg = "import_success"
            /\ IsDict(r.status_map)
            /\ Keys(r.status_map) = Keys(status_map) \cup DOMAIN p.map
            /\ \A k \in DOMAIN p.map : Get(r.status_map, k) = p.map[k]
            /\ \A k \in Keys(status_map) \ DOMAIN p.map :
                   Get(r.status_map, k) = Get(status_map, k)

\* An import has succeeded on a store that had the key "k::1-b_c::1" of the
\* payload (displayed on the first page with "k::1-b_c::2") and lacked the
\* key "x": one is overwritten, one untouched, one added.
C1_Witness ==
    /\ prog_file = BlobObject
    /\ OnScreen("import_success")
    /\ Has(status_map, "k::1-b_c::1") /\ Get(status_map, "k::1-b_c::1")
    /\ Has(status_map, "k::1-b_c::2") /\ ~Get(status_map, "k::1-b_c::2")
    /\ Has(status_map, "x") /\ ~Get(status_map, "x")

\* JSON texts that json.loads refuses, or that are no object:
\*   [1, 2, 3]    true    {"x": true    (nothing)    7    "x"    null    {} {}
RefusedTexts ==
    {BlobArray.text, BlobScalar.text, BlobBroken.text, <<>>, <<Num(7)>>,
     <<Str("x")>>, <<Lit("null")>>,
     <<Punct("{"), Punct("}"), Punct("{"), Punct("}")>>}

\* C2: an import of a text that is not valid JSON, or whose value is not
\* an object, shows an error and leaves status_map as it was, entry by
\* entry; and while such a file is in the uploader the page shows the error.
C2_FailedImportKeepsStore ==
    /\ \A text \in RefusedTexts :
           \E r \in {import_progress(status_map, text)} :
               /\ r.status_map = status_map
               /\ r.msg \in {"import_failed", "import_not_object"}
    /\ prog_file = BlobArray =>
           OnScreen("import_not_object") /\ ~OnScreen("import_success")

\* A refused file is in the uploader, the error is shown and status_map
\* has entries, one of them read.
C2_Witness ==
    /\ prog_file = BlobArray
    /\ OnScreen("import_not_object")
    /\ \E i \in DOMAIN status_map : status_map[i].v

\* The window of a bucket as the cumulative prefix would have it.
Prefix(w) ==
    Slice(Records(data_dict, w.cat, w.conc), 0, Max(PAGE_SIZE, w.start + PAGE_SIZE))

\* C3: the records a bucket shows are the cumulative prefix
\* records[0 : max(PAGE_SIZE, cursor + PAGE_SIZE)], cursor being the cursor
\* the window was drawn with.  Stated for a page that shows one bucket of
\* the table that has been in use since the session began, so that no other
\* bucket and no earlier table has touched the cursor.
C3_CumulativePrefix ==
    (Len(windows) = 1 /\ df = TableA /\ used = 1) =>
        windows[1].rows = Prefix(windows[1])

\* C4: right after a table is processed every bucket of the new data_dict
\* has cursor 0: the windows of that run start at 0 and no cursor entry of
\* a bucket is left above 0.
C4_IngestionResetsCursors ==
    [][ClickProcess =>
          /\ \A w \in DOMAIN windows' : windows'[w].start = 0
          /\ \A b \in Buckets(data_dict') : PageGet(page', PageKey(b[1], b[2])) = 0]_vars

\* C5, as claimed: a step that changes the selection leaves data_dict, the
\* cursors and status_map as they were.
C5_SelectChangesNothing ==
    [][(selected_cats' # selected_cats /\ (SelectCategory \/ DeselectCategory)) =>
          /\ data_dict' = data_dict
          /\ page' = page
          /\ status_map' = status_map]_vars

\* C5, as the code has it: a step that changes the selection leaves the
\* table and data_dict as they were and keeps every entry of status_map;
\* the entries it adds are keys of displayed records, unread; a cursor
\* keeps its value or goes to 0.
C5_SelectKeepsEntries ==
    [][(selected_cats' # selected_cats /\ (SelectCategory \/ DeselectCategory)) =>
          /\ data_dict' = data_dict
          /\ df' = df
          /\ Keeps(status_map, status_map')
          /\ \A k \in Keys(status_map') \ Keys(status_map) :
                 ~Get(status_map', k) /\ k \in Shown'
          /\ \A k \in (DOMAIN page) \cup (DOMAIN page') :
                 PageGet(page', k) \in {PageGet(page, k), 0}]_vars

\* Two categories are selected, their buckets are displayed and the
\* records of both are registered.
C5_Witness ==
    /\ Len(selected_cats) = 2
    /\ Len(windows) = 2
    /\ Shown \subseteq Keys(status_map)
    /\ Cardinality(Shown) > 1

\* C6: processing a table keeps every entry of status_map, key and value.
C6_IngestionKeepsStore ==
    [][ClickProcess => Keeps(status_map, status_map')]_vars

\* TableB is the table in use and status_map still has entries of records
\* of TableA, one of them marked as read by the user.
C6_Witness ==
    /\ df = TableB
    /\ Has(status_map, "k::1-c::4")
    /\ Has(status_map, "k::1-b_c::2") /\ Get(status_map, "k::1-b_c::2")

\* Tables that lack required columns: TableBad, a table without doi, a
\* table with none of the twelve.
RejectedTables ==
    {TableBad,
     Table(Range(REQUIRED_COLS) \ {"doi"}, <<Row(1, 2001, LabelA, LabelBC, 0)>>),
     Table({"index"}, <<Row(1, 2001, LabelA, LabelBC, 0)>>)}

\* C7: for a table that lacks required columns the upload container shows
\* the error with exactly the required columns the table lacks, each once,
\* leaves the process button disabled and leaves the session state (df,
\* data_dict, cursors, status_map) as it was, pressed or not; and the table
\* in use is never one that lacks a required column.
C7_MissingColumnsRejected ==
    /\ \A t \in RejectedTables, process \in BOOLEAN :
           \E u \in {upload_block(session_state, t, process)} :
               /\ ~u.valid
               /\ u.ss = session_state
               /\ Len(u.msgs) = 1
               /\ u.msgs[1].m = "missing_columns"
               /\ Range(u.msgs[1].cols) = Range(REQUIRED_COLS) \ t.cols
               /\ Len(u.msgs[1].cols) = Cardinality(Range(REQUIRED_COLS) \ t.cols)
    /\ uploaded \in RejectedTables =>
           /\ ~screen.valid
           /\ ~ENABLED ClickProcess
           /\ df # uploaded
    /\ df.present => Range(REQUIRED_COLS) \subseteq df.cols

\* TableBad is in the uploader while TableA is in use with entries in
\* status_map, and the page names the two columns TableBad lacks.
C7_Witness ==
    /\ uploaded = TableBad
    /\ df = TableA
    /\ status_map # <<>>
    /\ \E i \in DOMAIN msgs : msgs[i] = Message("missing_columns", <<"doi", "descricao">>)

\* C8: a bucket drawn exhausted (cursor + PAGE_SIZE reaches its count) has
\* no load-more button, and the next run that draws it shows its first
\* page; a button is offered exactly when cursor + PAGE_SIZE is below the
\* count.
C8_ExhaustedStartsOver ==
    [][data_dict' = data_dict /\ ~OnScreen("duplicate_widget_key")' =>
          \A w \in DOMAIN windows, v \in DOMAIN windows' :
              /\ windows[w].more <=> windows[w].start + PAGE_SIZE < windows[w].total
              /\ (/\ windows[w].cat = windows'[v].cat
                  /\ windows[w].conc = windows'[v].conc
                  /\ windows[w].start + PAGE_SIZE >= windows[w].total)
                 => /\ windows'[v].start = 0
                    /\ windows'[v].rows =
                           Slice(Records(data_dict, windows[w].cat, windows[w].conc),
                                 0, PAGE_SIZE)]_vars

\* C9: importing the export of status_map into an empty store gives the
\* same keys with the same values, and importing it into status_map itself
\* leaves status_map as it is.
C9_ExportImportRoundTrip ==
    \E text \in {export_progress(status_map)} :
        \E fresh \in {import_progress(<<>>, text)},
           same \in {import_progress(status_map, text)} :
            /\ fresh.msg = "import_success"
            /\ IsDict(fresh.status_map)
            /\ Keys(fresh.status_map) = Keys(status_map)
            /\ \A k \in Keys(status_map) : Get(fresh.status_map, k) = Get(status_map, k)
            /\ same.msg = "import_success"
            /\ same.status_map = status_map

\* The download button holds the export of a status_map that has read and
\* unread entries.
C9_Witness ==
    /\ screen.download_data = export_progress(status_map)
    /\ \E i, j \in DOMAIN status_map : status_map[i].v /\ ~status_map[j].v

\* The records of data_dict, each with its place: category, concept,
\* position in the bucket.
Places ==
    UNION {{<<b[1], b[2], i>> : i \in DOMAIN Records(data_dict, b[1], b[2])} :
              b \in Buckets(data_dict)}

KeyAt(pl) == make_record_key(Records(data_dict, pl[1], pl[2])[pl[3]])

\* C10: two distinct records of the table in use have distinct keys.
C10_KeysDistinct ==
    \A p, q \in Places : KeyAt(p) = KeyAt(q) => p = q

\* C11: in every bucket of data_dict the records are in non-decreasing order
\* of (id_registro, ano_publicacao), and records that tie on both are in the
\* order of the rows of the sheet (idx is the row's position: the sheets
\* have no column "index").
C11_SortedStable ==
    \A b \in Buckets(data_dict) :
        LET rs == Records(data_dict, b[1], b[2]) IN
        \A i \in 1..(Len(rs) - 1) :
            \/ rs[i].id_registro < rs[i + 1].id_registro
            \/ /\ rs[i].id_registro = rs[i + 1].id_registro
               /\ rs[i].ano_publicacao < rs[i + 1].ano_publicacao
            \/ /\ rs[i].id_registro = rs[i + 1].id_registro
               /\ rs[i].ano_publicacao = rs[i + 1].ano_publicacao
               /\ rs[i].idx < rs[i + 1].idx

\* A processed sheet with a bucket of three records, two of which tie, that
\* the sort had to reorder.
C11_Witness ==
    \E b \in Buckets(data_dict) :
        LET rs == Records(data_dict, b[1], b[2]) IN
        /\ Len(rs) = 3
        /\ \E i \in 1..2 : /\ rs[i].id_registro = rs[i + 1].id_registro
                           /\ rs[i].ano_publicacao = rs[i + 1].ano_publicacao
        /\ \E i, j \in 1..3 : i < j /\ rs[i].idx > rs[j].idx

\* s starts with "http://" or "https://", whatever the case of its letters.
HttpStart(s) ==
    \E p \in {<<"h", "t", "t", "p", ":", "/", "/">>,
               <<"h", "t", "t", "p", "s", ":", "/", "/">>} :
        /\ Len(s) >= Len(p)
        /\ \A i \in DOMAIN p :
               \/ s[i] = p[i]
               \/ <<p[i], s[i]>> \in {<<"h", "H">>, <<"t", "T">>, <<"p", "P">>, <<"s", "S">>}

\* s without the whitespace at its two ends.
Core(s) ==
    LET cut == CHOOSE c \in (1..(Len(s) + 1)) \X (0..Len(s)) :
                   /\ \A i \in 1..(c[1] - 1) : s[i] \in Whitespace
                   /\ \A i \in (c[2] + 1)..Len(s) : s[i] \in Whitespace
                   /\ \/ c[1] = c[2] + 1
                      \/ /\ c[1] <= c[2]
                         /\ s[c[1]] \notin Whitespace
                         /\ s[c[2]] \notin Whitespace
    IN  SubSeq(s, cut[1], cut[2])

\* The search address of each of the titles.
ScholarOf(t) ==
    CASE t = Text(<<"a", " ", "b">>) -> "https://scholar.google.com/scholar?q=a+b"
      [] t = Text(<<" ", "a", "&", "b", " ">>) -> "https://scholar.google.com/scholar?q=a%26b"
      [] t = Text(<<"h", "t", "t", "p", ":", "/", "/", "x">>) ->
             "https://scholar.google.com/scholar?q=http%3A%2F%2Fx"
      [] t = NaN -> "https://scholar.google.com/scholar?q=nan"
      [] OTHER -> "https://scholar.google.com/scholar?q="

\* C12 as stated: each of the two links is its field verbatim when the
\* field starts, in any case, with http:// or https://, and the search for
\* the title otherwise.
C12_LinksVerbatim ==
    card.present =>
        /\ card.link_final =
               IF HttpStart(PyStr(card.row.link_acesso))
               THEN Join(PyStr(card.row.link_acesso)) ELSE card.link_google_scholar
        /\ card.doi_final =
               IF HttpStart(PyStr(card.row.doi))
               THEN Join(PyStr(card.row.doi)) ELSE card.link_google_scholar

\* C12, amended: the rule is applied to the text of the field without the
\* whitespace at its ends, and that text is the link; the search is for the
\* title without the whitespace at its ends; neither link depends on the
\* field of the other; every row has its two links.
C12_LinksStripped ==
    card.present =>
        /\ card.link_google_scholar = ScholarOf(card.row.titulo_artigo)
        /\ card.link_final =
               IF HttpStart(Core(PyStr(card.row.link_acesso)))
               THEN Join(Core(PyStr(card.row.link_acesso))) ELSE card.link_google_scholar
        /\ card.doi_final =
               IF HttpStart(Core(PyStr(card.row.doi)))
               THEN Join(Core(PyStr(card.row.doi))) ELSE card.link_google_scholar
        /\ \A c \in LinkCells :
               /\ resolve_links([card.row EXCEPT !.doi = c]).link_final = card.link_final
               /\ resolve_links([card.row EXCEPT !.link_acesso = c]).doi_final = card.doi_final

\* A card whose link_acesso is a web address in capitals between whitespace
\* and whose doi is empty.
C12_Witness ==
    /\ card.present
    /\ card.row.titulo_artigo = Text(<<" ", "a", "&", "b", " ">>)
    /\ card.row.link_acesso = Text(<<" ", "H", "T", "T", "P", "S", ":", "/", "/", "X", "\t">>)
    /\ card.row.doi = NaN
    /\ card.link_final = "HTTPS://X"
    /\ card.doi_final = "https://scholar.google.com/scholar?q=a%26b"

\* The keys of the object in a progress file, if it holds one.
PayloadKeys(b) ==
    IF ~b.present THEN {}
    ELSE LET data == json_loads(b.text) IN
         IF data.ok /\ data.val.kind = "object"
         THEN {data.val.members[i].k : i \in DOMAIN data.val.members}
         ELSE {}

\* C13: no interaction removes a key from status_map, and the value of a key
\* that is in it changes only when the user toggles that key or when the run
\* imports a progress file that has that key.
C13_StoreNeverShrinks ==
    [][/\ Keys(status_map) \subseteq Keys(status_map')
       /\ \A k \in Keys(status_map) :
              Get(status_map', k) # Get(status_map, k) =>
                  \/ k \in PayloadKeys(prog_file')
                  \/ \E v \in BOOLEAN : Toggle(k, v)]_vars

\* A record was marked read while a progress file without its key is in the
\* uploader, and the selection has been emptied since.
C13_Witness ==
    /\ df = TableA
    /\ selected_cats = <<>>
    /\ status_map # <<>> /\ status_map[Len(status_map)].k = "x"
    /\ Has(status_map, "k::1-b_c::2") /\ Get(status_map, "k::1-b_c::2")

\* C14: after every interaction each record the page displays has its key in
\* status_map; a key that was not there before, and that no imported file
\* has, is there with the value false and the record is shown as unread; a
\* key that was there keeps its value unless the user toggled it or an
\* imported file has it; and a key that is new is the key of a displayed
\* record or a key of the imported file.
C14_LazyRegistration ==
    [][/\ \A w \in DOMAIN windows' : \A i \in DOMAIN windows'[w].keys :
              \E k \in {windows'[w].keys[i]} :
                  /\ Has(status_map', k)
                  /\ (~Has(status_map, k) /\ k \notin PayloadKeys(prog_file')) =>
                         ~Get(status_map', k) /\ ~windows'[w].lido[i]
                  /\ (Has(status_map, k) /\ Get(status_map', k) # Get(status_map, k)) =>
                         \/ k \in PayloadKeys(prog_file')
                         \/ \E v \in BOOLEAN : Toggle(k, v)
       /\ Keys(status_map') \ Keys(status_map) \subseteq Shown' \cup PayloadKeys(prog_file')]_vars

\* The first page of the bucket ("a", "b_c") is displayed, one of its records
\* marked read; the two records of the second page have no key in status_map.
C14_Witness ==
    /\ df = TableA
    /\ Len(windows) = 1
    /\ windows[1].keys = <<"k::1-b_c::2", "k::1-b_c::1">>
    /\ windows[1].lido = <<TRUE, FALSE>>
    /\ Keys(status_map) = {"k::1-b_c::2", "k::1-b_c::1"}

\* C15: when the user sets the checkbox of a displayed record to v, the
\* record's key has the value v in status_map at the end of that run, also
\* when a progress file imported earlier is still in the uploader.
C15_ToggleAuthoritative ==
    [][\A k \in Shown : \A v \in BOOLEAN :
           Toggle(k, v) => Has(status_map', k) /\ Get(status_map', k) = v]_vars

\* The cursor of a bucket b = <<category, concept>> (line 154).
Cursor(pg, b) == PageGet(pg, PageKey(b[1], b[2]))

\* The page displays bucket b.
Displayed(ws, b) == \E w \in DOMAIN ws : ws[w].cat = b[1] /\ ws[w].conc = b[2]

\* C16: when the user presses the load-more button of a displayed bucket,
\* the cursor of every other bucket that the run does not draw is as it
\* was, whatever the labels of the two buckets.
C16_CursorsIndependent ==
    [][\A b1 \in Buckets(data_dict) : \A b2 \in Buckets(data_dict) :
           (/\ b1 # b2
            /\ \E w \in DOMAIN windows :
                   windows[w].cat = b1[1] /\ windows[w].conc = b1[2] /\ windows[w].more
            /\ ~Displayed(windows', b2)
            /\ ClickMore(ButtonKey(b1[1], b1[2])))
           => Cursor(page', b2) = Cursor(page, b2)]_vars

\* C17, for the table whose buckets have distinct cursor entries: every
\* cursor is a non-negative multiple of PAGE_SIZE, and every bucket the page
\* displays was drawn from a cursor below its number of records, so that
\* its window is not empty.
C17_CursorWellFormed ==
    df = TableB =>
        /\ \A k \in DOMAIN page : page[k] >= 0 /\ page[k] % PAGE_SIZE = 0
        /\ \A w \in DOMAIN windows :
               /\ windows[w].start < windows[w].total
               /\ windows[w].rows # <<>>

\* C18 (the page under a user action): when the page displays one bucket
\* and the user changes the checkbox of one of its records, the run
\* displays the same page of that bucket.
C18_ToggleKeepsPage ==
    [][(Len(windows) = 1 /\ ToggleRecord) =>
           /\ Len(windows') = 1
           /\ windows'[1].start = windows[1].start
           /\ windows'[1].keys = windows[1].keys]_vars

\* The places of the records of a data_dict: category, concept, position.
PlacesOf(dd) ==
    UNION {UNION {{<<c, j, n>> : n \in DOMAIN dd[c].concs[j].records} :
                     j \in DOMAIN dd[c].concs} : c \in DOMAIN dd}

\* C19: after a sheet is processed, every row of it is at exactly one place
\* of data_dict, in the bucket named by the string forms of its categoria
\* and its conceito, and data_dict has no other record; no category and no
\* bucket is empty; the categories, and the concepts of each category, are
\* in strictly ascending order of their strings.
C19_GroupingPartitions ==
    df.present =>
        /\ \A i \in DOMAIN df.rows :
               \E pl \in PlacesOf(data_dict) :
                   LET r == data_dict[pl[1]].concs[pl[2]].records[pl[3]] IN
                   /\ r.idx = i - 1
                   /\ \A q \in PlacesOf(data_dict) :
                          data_dict[q[1]].concs[q[2]].records[q[3]].idx = i - 1 => q = pl
                   /\ data_dict[pl[1]].cat =
                          AsTypeStr(df.rows[i].categoria, ColumnDtype(df.rows, "categoria"))
                   /\ data_dict[pl[1]].concs[pl[2]].conc =
                          AsTypeStr(df.rows[i].conceito, ColumnDtype(df.rows, "conceito"))
                   /\ r.categoria = data_dict[pl[1]].cat
                   /\ r.conceito = data_dict[pl[1]].concs[pl[2]].conc
                   /\ r.id_registro = df.rows[i].id_registro
                   /\ r.ano_publicacao = df.rows[i].ano_publicacao
        /\ \A pl \in PlacesOf(data_dict) :
               data_dict[pl[1]].concs[pl[2]].records[pl[3]].idx \in 0..(Len(df.rows) - 1)
        /\ \A c \in DOMAIN data_dict :
               /\ data_dict[c].concs # <<>>
               /\ \A j \in DOMAIN data_dict[c].concs : data_dict[c].concs[j].records # <<>>
               /\ \A j \in 1..(Len(data_dict[c].concs) - 1) :
                      StrLess(data_dict[c].concs[j].conc, data_dict[c].concs[j + 1].conc)
        /\ \A c \in 1..(Len(data_dict) - 1) : StrLess(data_dict[c].cat, data_dict[c + 1].cat)

\* A processed sheet whose three rows have an empty, a numeric and a text
\* categoria, grouped in another order than the rows have.
C19_Witness ==
    /\ df.present
    /\ Len(df.rows) = 3
    /\ df.rows[1].categoria = NaN
    /\ df.rows[2].categoria = LabelA
    /\ df.rows[3].categoria = Number(10)
    /\ [c \in DOMAIN data_dict |-> data_dict[c].cat] =
           <<<<"1", "0">>, <<"a">>, <<"n", "a", "n">>>>

=============================================================================
